---------------------------- MODULE Spec2Model ----------------------------
(***************************************************************************)
(* Model of the R-way trie of src/trie.go.                                 *)
(*                                                                         *)
(* A *Node is modelled by the path of map keys that leads to it from the   *)
(* root (the root is <<>>); the heap maps every node reachable from the    *)
(* root to its fields.  A node that is no longer reachable is dropped from *)
(* the heap (the garbage collector owns it; no field of a live node refers *)
(* to it).  A rune is its code point, a string is the sequence of its      *)
(* runes, and a uint64 mask is the set of its set bit positions (0..63):   *)
(* | is \cup, & is \cap, ^ is the symmetric difference.                    *)
(***************************************************************************)
EXTENDS Integers, Sequences, FiniteSets, TLC

VARIABLES heap, size, panicked, nAdd, nRemove

vars == <<heap, size, panicked, nAdd, nRemove>>

\* ------------------------------------------------------------- bounds
\* runes in a key, a prefix or a pattern
MaxLen == 2
\* Add and Remove calls made on one trie
MaxCalls == 3

\* ---------------------------------------------------------- constants
nul == 0
LetterA == 97
WordBits == 64

Alphabet == {LetterA, LetterA + 1}

\* the nil *Node
nil == <<-1>>

root == <<>>

StringsUpTo(n) == UNION {[1..m -> Alphabet] : m \in 0..n}

Strings == StringsUpTo(MaxLen)

\* every key a children map of a trie over Alphabet can hold
MapKeys == Alphabet \cup {nul}

\* the orders in which a range loop can visit the keys of a map
Orders == {o \in [1..Cardinality(MapKeys) -> MapKeys] :
             \A i, j \in DOMAIN o : i # j => o[i] # o[j]}

\* ------------------------------------------------------------- masks
\* uint64(1) << (uint64(r) - 97): the subtraction wraps for r < 97, and a
\* shift by 64 or more yields 0
maskrune(r) == IF r >= LetterA /\ r - LetterA < WordBits THEN {r - LetterA} ELSE {}

\* maskruneslice that masks the first rune only
maskruneslice_firstOnly(rs) == IF Len(rs) = 0 THEN {} ELSE maskrune(rs[1])

maskruneslice(rs) == UNION {maskrune(rs[i]) : i \in DOMAIN rs}

\* ------------------------------------------------------------- nodes
newNode(parent, val, m, term) ==
  [val |-> val, mask |-> m, term |-> term, parent |-> parent,
   children |-> [k \in {} |-> nil]]

IsPrefix(p, q) == Len(p) <= Len(q) /\ SubSeq(q, 1, Len(p)) = p

\* the heap without the node at ptr and everything below it
Drop(h, ptr) == [q \in {x \in DOMAIN h : ~IsPrefix(ptr, x)} |-> h[q]]

\* NewChild with n.children replaced by a map that holds the new child only
NewChild_dropsSiblings(h, n, parent, r, bitmask, val, term) ==
  LET node == Append(n, r)
      kept == {x \in DOMAIN h : ~(IsPrefix(n, x) /\ x # n)}
      h1 == (node :> newNode(parent, val, bitmask, term)) @@ [q \in kept |-> h[q]]
  IN [heap |-> [h1 EXCEPT ![n].children = (r :> node)], node |-> node]

\* NewChild that makes the node with a nil parent
NewChild_parentNil(h, n, parent, r, bitmask, val, term) ==
  LET node == Append(n, r)
      h1 == (node :> newNode(nil, val, bitmask, term)) @@ Drop(h, node)
  IN [heap |-> [h1 EXCEPT ![n].children = (r :> node) @@ @], node |-> node]

\* NewChild that makes the node its own parent
NewChild_parentSelf(h, n, parent, r, bitmask, val, term) ==
  LET node == Append(n, r)
      h1 == (node :> newNode(node, val, bitmask, term)) @@ Drop(h, node)
  IN [heap |-> [h1 EXCEPT ![n].children = (r :> node) @@ @], node |-> node]

\* n.NewChild(parent, r, bitmask, val, term): the new node and the heap
\* with it stored under r in n's children (a node already stored under r
\* is replaced and becomes unreachable)
NewChild(h, n, parent, r, bitmask, val, term) ==
  LET node == Append(n, r)
      h1 == (node :> newNode(parent, val, bitmask, term)) @@ Drop(h, node)
  IN [heap |-> [h1 EXCEPT ![n].children = (r :> node) @@ @], node |-> node]

Parent(h, n) == h[n].parent

Children(h, n) == h[n].children

Val(h, n) == h[n].val

Mask(h, n) == h[n].mask

\* recalculateMask that leaves the children out
recalculateMask_ownOnly(h, n) == [h EXCEPT ![n].mask = maskrune(Val(h, n))]

recalculateMask(h, n) ==
  [h EXCEPT ![n].mask =
     maskrune(Val(h, n)) \cup
     UNION {maskrune(k) \cup Mask(h, Children(h, n)[k]) : k \in DOMAIN Children(h, n)}]

RECURSIVE recalculateUp(_, _)
\* the loop of RemoveChild over the parent chain
recalculateUp(h, parent) ==
  IF parent = nil THEN h
  ELSE recalculateUp(recalculateMask(h, parent), Parent(h, parent))

\* delete(n.children, r)
deleteChild(h, n, r) ==
  IF r \in DOMAIN h[n].children
  THEN [Drop(h, h[n].children[r]) EXCEPT
          ![n].children = [k \in (DOMAIN h[n].children) \ {r} |-> h[n].children[k]]]
  ELSE h

RemoveChild(h, n, r) ==
  LET h1 == recalculateMask(deleteChild(h, n, r), n)
  IN recalculateUp(h1, Parent(h1, n))

\* ------------------------------------------------------------- trie
\* CreateTrie with a root that is flagged terminal
CreateTrie_terminalRoot == [root |-> (root :> newNode(nil, 0, {}, TRUE)), size |-> 0]

CreateTrie == [root |-> (root :> newNode(nil, 0, {}, FALSE)), size |-> 0]

RECURSIVE findNode(_, _, _, _)
findNode(h, node, runes, d) ==
  IF node = nil THEN nil
  ELSE IF Len(runes) = 0 THEN node
  ELSE IF d = Len(runes) THEN node
  ELSE IF runes[d + 1] \notin DOMAIN Children(h, node) THEN nil
  ELSE findNode(h, Children(h, node)[runes[d + 1]], runes, d + 1)

nodeAtPath(h, pre) == findNode(h, root, pre, 0)

\* n.mask = bitmask in place of n.mask |= bitmask
orMask_overwrite(h, n, bitmask) == [h EXCEPT ![n].mask = bitmask]

\* n.mask |= bitmask
orMask(h, n, bitmask) == [h EXCEPT ![n].mask = @ \cup bitmask]

RECURSIVE addrune_noIncrement(_, _, _, _)
\* addrune without the i++ before the recursive call
addrune_noIncrement(h, node, runes, i) ==
  IF Len(runes) = 0
  THEN [heap |-> NewChild(h, node, node, 0, {}, nul, TRUE).heap, ret |-> i]
  ELSE LET r == runes[1]
           c == Children(h, node)
           ok == r \in DOMAIN c
           bitmask == maskruneslice(runes)
           made == NewChild(h, node, node, r, bitmask, r, FALSE)
           h1 == IF ok THEN h ELSE made.heap
           n == IF ok THEN c[r] ELSE made.node
           h2 == orMask(h1, n, bitmask)
       IN addrune_noIncrement(h2, n, Tail(runes), i)

RECURSIVE addrune(_, _, _, _)
addrune(h, node, runes, i) ==
  IF Len(runes) = 0
  THEN [heap |-> NewChild(h, node, node, 0, {}, nul, TRUE).heap, ret |-> i]
  ELSE LET r == runes[1]
           c == Children(h, node)
           ok == r \in DOMAIN c
           bitmask == maskruneslice(runes)
           made == NewChild(h, node, node, r, bitmask, r, FALSE)
           h1 == IF ok THEN h ELSE made.heap
           n == IF ok THEN c[r] ELSE made.node
           h2 == orMask(h1, n, bitmask)
       IN addrune(h2, n, Tail(runes), i + 1)

RECURSIVE removeWalk_indexBeforeHop(_, _, _, _)
\* the loop of Remove with the index taken before i++ (len(rs) - i, one too far)
removeWalk_indexBeforeHop(h, n, i, rs) ==
  IF n = nil THEN [heap |-> h, panic |-> FALSE]
  ELSE IF Cardinality(DOMAIN Children(h, n)) > 1
  THEN LET idx == Len(rs) - i
       IN IF idx < 0 \/ idx >= Len(rs) THEN [heap |-> h, panic |-> TRUE]
          ELSE [heap |-> RemoveChild(h, n, rs[idx + 1]), panic |-> FALSE]
  ELSE removeWalk_indexBeforeHop(h, Parent(h, n), i + 1, rs)

RECURSIVE removeWalk_anyChild(_, _, _, _)
\* the loop of Remove that stops at the first ancestor with a child
\* (len(n.Children()) > 0 in place of > 1)
removeWalk_anyChild(h, n, i, rs) ==
  IF n = nil THEN [heap |-> h, panic |-> FALSE]
  ELSE IF Cardinality(DOMAIN Children(h, n)) > 0
  THEN LET idx == Len(rs) - (i + 1)
       IN IF idx < 0 \/ idx >= Len(rs) THEN [heap |-> h, panic |-> TRUE]
          ELSE [heap |-> RemoveChild(h, n, rs[idx + 1]), panic |-> FALSE]
  ELSE removeWalk_anyChild(h, Parent(h, n), i + 1, rs)

RECURSIVE removeWalk(_, _, _, _)
\* the loop of Remove: n is the ancestor under inspection, i the hops so far
removeWalk(h, n, i, rs) ==
  IF n = nil THEN [heap |-> h, panic |-> FALSE]
  ELSE IF Cardinality(DOMAIN Children(h, n)) > 1
  THEN LET idx == Len(rs) - (i + 1)
       IN IF idx < 0 \/ idx >= Len(rs) THEN [heap |-> h, panic |-> TRUE]
          ELSE [heap |-> RemoveChild(h, n, rs[idx + 1]), panic |-> FALSE]
  ELSE removeWalk(h, Parent(h, n), i + 1, rs)

\* ----------------------------------------------------------- queries
RangeOrder(c, ord) == SelectSeq(ord, LAMBDA k : k \in DOMAIN c)

RECURSIVE collect(_, _, _, _), collectFrom(_, _, _, _, _)
\* collect's range loop over the remaining children ks, in order
collectFrom(h, node, pre, ord, ks) ==
  IF ks = <<>> THEN <<>>
  ELSE LET r == Head(ks)
           n == Children(h, node)[r]
       IN (IF h[n].term THEN <<pre>> ELSE collect(h, n, Append(pre, r), ord))
          \o collectFrom(h, node, pre, ord, Tail(ks))

\* the keys collect appends, in order, when maps are ranged in order ord
collect(h, node, pre, ord) ==
  collectFrom(h, node, pre, ord, RangeOrder(Children(h, node), ord))

SymDiff(a, b) == (a \ b) \cup (b \ a)

RECURSIVE fuzzycollect(_, _, _, _, _), fuzzyFrom(_, _, _, _, _, _)
fuzzyFrom(h, node, partialmatch, partial, ord, ks) ==
  IF ks = <<>> THEN <<>>
  ELSE LET v == Head(ks)
           n == Children(h, node)[v]
           m == maskruneslice(partial)
           xor == SymDiff(Mask(h, n), m)
           npartial == IF v = partial[1] THEN Tail(partial) ELSE partial
       IN (IF (xor \cap m) # {} THEN <<>>
           ELSE fuzzycollect(h, n, Append(partialmatch, v), npartial, ord))
          \o fuzzyFrom(h, node, partialmatch, partial, ord, Tail(ks))

fuzzycollect(h, node, partialmatch, partial, ord) ==
  IF Len(partial) = 0 THEN collect(h, node, partialmatch, ord)
  ELSE fuzzyFrom(h, node, partialmatch, partial, ord,
                 RangeOrder(Children(h, node), ord))

RECURSIVE StrLess(_, _)
\* a < b on Go strings (bytewise; every rune here is one byte)
StrLess(a, b) ==
  IF Len(b) = 0 THEN FALSE
  ELSE IF Len(a) = 0 THEN TRUE
  ELSE IF a[1] # b[1] THEN a[1] < b[1]
  ELSE StrLess(Tail(a), Tail(b))

RECURSIVE insertSorted(_, _)
insertSorted(s, x) ==
  IF s = <<>> THEN <<x>>
  ELSE IF StrLess(x, Head(s)) THEN <<x>> \o s
  ELSE <<Head(s)>> \o insertSorted(Tail(s), x)

RECURSIVE sortStrings(_)
\* sort.Strings: the ascending arrangement of the slice
sortStrings(s) ==
  IF s = <<>> THEN <<>>
  ELSE insertSorted(sortStrings(Tail(s)), Head(s))

\* FuzzySearch without the sort.Strings call
FuzzySearch_unsorted(h, pre, ord) == fuzzycollect(h, root, <<>>, pre, ord)

FuzzySearch(h, pre, ord) == sortStrings(fuzzycollect(h, root, <<>>, pre, ord))

\* PrefixSearch that collects from an empty prefix (suffixes, not full keys)
PrefixSearch_suffixes(h, pre, ord) ==
  LET node == nodeAtPath(h, pre)
  IN IF node = nil THEN <<>> ELSE collect(h, node, <<>>, ord)

PrefixSearch(h, pre, ord) ==
  LET node == nodeAtPath(h, pre)
  IN IF node = nil THEN <<>> ELSE collect(h, node, pre, ord)

Keys(h, ord) == PrefixSearch(h, <<>>, ord)

\* ----------------------------------------------------------- actions
Init ==
  /\ heap = CreateTrie.root
  /\ size = CreateTrie.size
  /\ panicked = FALSE
  /\ nAdd = 0
  /\ nRemove = 0

\* Add that counts a key only when Keys() does not list it yet
Add_countsDistinct(key) ==
  /\ ~panicked
  /\ nAdd + nRemove < MaxCalls
  /\ size' = IF key \in {Keys(heap, CHOOSE o \in Orders : TRUE)[i] : i \in DOMAIN Keys(heap, CHOOSE o \in Orders : TRUE)}
             THEN size ELSE size + 1
  /\ heap' = addrune(heap, root, key, 0).heap
  /\ nAdd' = nAdd + 1
  /\ UNCHANGED <<panicked, nRemove>>

Add(key) ==
  /\ ~panicked
  /\ nAdd + nRemove < MaxCalls
  /\ size' = size + 1
  /\ heap' = addrune(heap, root, key, 0).heap
  /\ nAdd' = nAdd + 1
  /\ UNCHANGED <<panicked, nRemove>>

Remove(key) ==
  /\ ~panicked
  /\ nAdd + nRemove < MaxCalls
  /\ LET node == nodeAtPath(heap, key)
     IN /\ size' = size - 1
        /\ IF node = nil
           THEN heap' = heap /\ panicked' = TRUE
           ELSE LET w == removeWalk(heap, Parent(heap, node), 0, key)
                IN heap' = w.heap /\ panicked' = w.panic
  /\ nRemove' = nRemove + 1
  /\ UNCHANGED nAdd

Next ==
  \/ \E key \in Strings : Add(key)
  \/ \E key \in Strings : Remove(key)

Spec == Init /\ [][Next]_vars

\* --------------------------------------- keys outside the alphabet
\* the runes 'A' and '{': one below 'a' and one above 'z'
OutsideRunes == {LetterA - 32, LetterA + 26}

WideStrings == UNION {[1..m -> Alphabet \cup OutsideRunes] : m \in 0..MaxLen}

\* the calls of Next, with keys that may hold runes outside a-z
NextWide ==
  \/ \E key \in WideStrings : Add(key)
  \/ \E key \in WideStrings : Remove(key)

SpecWide == Init /\ [][NextWide]_vars

\* ------------------------------------------------------------ claims
ToSet(s) == {s[i] : i \in DOMAIN s}

\* some order; the sets below do not depend on which
AnOrder == CHOOSE o \in Orders : TRUE

KeySet(h) == ToSet(Keys(h, AnOrder))

NoDuplicates(s) == \A i, j \in DOMAIN s : i # j => s[i] # s[j]

\* p's characters occur in k in order, not necessarily contiguously
RECURSIVE IsSubsequence(_, _)
IsSubsequence(p, k) ==
  \/ p = <<>>
  \/ /\ k # <<>>
     /\ \/ Head(p) = Head(k) /\ IsSubsequence(Tail(p), Tail(k))
        \/ IsSubsequence(p, Tail(k))

StrictlyAscending(s) == \A i \in 1..(Len(s) - 1) : StrLess(s[i], s[i + 1])

\* the runes of the letters a and b
chA == LetterA

chB == LetterA + 1

\* C1: after Remove(k) of a stored key k, Keys() as a set is the set before
\* the call minus k.
C1_RemoveDeletesExactlyKey ==
  [][\A k \in Strings :
       (Remove(k) /\ k \in KeySet(heap))
         => \A o \in Orders : ToSet(Keys(heap', o)) = KeySet(heap) \ {k}]_vars

\* C2: after Add(k), Keys() as a set is the set before the call united with
\* {k}, whatever the order maps are ranged in, and lists no key twice.
C2_AddUnitesKey ==
  [][\A k \in Strings :
       Add(k) => \A o \in Orders :
                   /\ ToSet(Keys(heap', o)) = KeySet(heap) \cup {k}
                   /\ NoDuplicates(Keys(heap', o))]_vars

\* a key added while a longer key that it is a proper prefix of is stored,
\* and the empty key added as well
C2_Witness ==
  /\ nAdd = 3 /\ nRemove = 0
  /\ KeySet(heap) = {<<>>, <<chA>>, <<chA, chB>>}

\* C3: a stored key is in FuzzySearch(p) iff p is a subsequence of it, and
\* FuzzySearch(p) returns stored keys only.
C3_FuzzyIffSubsequence ==
  LET ks == KeySet(heap)
  IN \A p \in Strings :
       LET matching == {k \in ks : IsSubsequence(p, k)}
       IN \A o \in Orders :
            LET res == ToSet(FuzzySearch(heap, p, o))
            IN /\ res \subseteq ks
               /\ \A k \in ks : k \in res <=> k \in matching

\* after a Remove that detached a branch (the root's mask is non-empty only
\* once RemoveChild has recomputed it): "ab" is matched by "b" with its first
\* letter skipped, and not by "ba", whose letters it holds in another order
C3_Witness ==
  /\ nAdd = 2 /\ nRemove = 1 /\ ~panicked
  /\ KeySet(heap) = {<<chA, chB>>}
  /\ heap[<<chA>>].mask = {0, 1} /\ heap[root].mask = {0, 1}
  /\ FuzzySearch(heap, <<chB>>, AnOrder) = <<(<<chA, chB>>)>>
  /\ FuzzySearch(heap, <<chB, chA>>, AnOrder) = <<>>

\* C4: PrefixSearch(p) lists exactly the stored keys that start with p, as
\* full keys and each once; nothing when p has no path; and
\* PrefixSearch("") is Keys().
C4_PrefixSearchExact ==
  \A o \in Orders :
    LET keys == Keys(heap, o)
        ks == ToSet(keys)
    IN /\ PrefixSearch(heap, <<>>, o) = keys
       /\ \A p \in Strings :
            LET res == PrefixSearch(heap, p, o)
            IN /\ ToSet(res) = {k \in ks : IsPrefix(p, k)}
               /\ NoDuplicates(res)
               /\ (nodeAtPath(heap, p) = nil => res = <<>>)

\* a non-empty prefix with two keys below it, another key elsewhere
C4_Witness ==
  /\ ToSet(PrefixSearch(heap, <<chA>>, AnOrder)) = {<<chA>>, <<chA, chB>>}
  /\ <<chB>> \in KeySet(heap)
  /\ PrefixSearch(heap, <<chB, chB>>, AnOrder) = <<>>

\* the bit of a character, where the character 0 contributes none
Bit(c) == IF c = nul THEN {} ELSE {c - LetterA}

MaskInvariantAt(h, n) ==
  h[n].mask = Bit(h[n].val) \cup
              UNION {Bit(h[c].val) \cup h[c].mask :
                       c \in {h[n].children[k] : k \in DOMAIN h[n].children}}

\* C5: every node, the root included, has
\* mask = bit(character) | OR over children c of (bit(c.character) | mask(c)).
C5_MaskInvariantAllNodes == \A n \in DOMAIN heap : MaskInvariantAt(heap, n)

\* C6: a Remove(x) that completes keeps every key other than x that Keys()
\* listed before the call.
C6_RemoveKeepsOtherKeys ==
  [][\A x \in Strings :
       (Remove(x) /\ ~panicked')
         => \A y \in KeySet(heap) \ {x} : y \in KeySet(heap')]_vars

\* C7: Remove(k) of a key that is not stored ends in a key-not-found outcome
\* and never dereferences a nil node or parent (the call does not panic).
C7_RemoveAbsentKeyNotFound ==
  [][\A k \in Strings :
       (Remove(k) /\ k \notin KeySet(heap)) => ~panicked']_vars

\* the sentinels stored under the node at path k
SentinelsUnder(h, k) ==
  {c \in DOMAIN h : h[c].term /\ h[c].parent = nodeAtPath(h, k)}

\* C8: Add(k) of a stored key k changes no node (the set of nodes and every
\* node's character, terminal flag, parent, mask and children map), leaves
\* exactly one sentinel under k's last node, keeps Keys() and adds 1 to size.
C8_ReAddIdempotent ==
  [][\A k \in Strings :
       (Add(k) /\ k \in KeySet(heap))
         => /\ heap' = heap
            /\ Cardinality(SentinelsUnder(heap', k)) = 1
            /\ \A o \in Orders : ToSet(Keys(heap', o)) = ToSet(Keys(heap, o))
            /\ size' = size + 1]_vars

\* a key stored below a node whose mask holds more than the key's own
\* letters was added twice
C8_Witness ==
  /\ nAdd = 3 /\ nRemove = 0 /\ size = 3
  /\ KeySet(heap) = {<<chA>>, <<chA, chB>>}
  /\ heap[<<chA>>].mask = {0, 1}

\* C9: FuzzySearch(p) is strictly ascending (sorted, no key twice) and is
\* the same sequence whatever order the children maps are ranged in.
C9_FuzzySortedOrderFree ==
  \A p \in Strings :
    LET ref == FuzzySearch(heap, p, AnOrder)
    IN /\ StrictlyAscending(ref)
       /\ \A o \in Orders : FuzzySearch(heap, p, o) = ref

\* two range orders that make fuzzycollect append three keys differently
C9_Witness ==
  \E o1, o2 \in Orders :
    /\ Len(fuzzycollect(heap, root, <<>>, <<chA>>, o1)) = 3
    /\ fuzzycollect(heap, root, <<>>, <<chA>>, o1) # fuzzycollect(heap, root, <<>>, <<chA>>, o2)

Fresh == nAdd = 0 /\ nRemove = 0

\* C10: a freshly created trie has a root with character 0, mask 0, terminal
\* flag false, nil parent and no children, and size 0; Keys(),
\* PrefixSearch("") and FuzzySearch("") return nothing on it.
C10_FreshTrieEmpty ==
  Fresh =>
    /\ DOMAIN heap = {root}
    /\ heap[root].val = 0 /\ heap[root].mask = {} /\ heap[root].term = FALSE
    /\ heap[root].parent = nil /\ DOMAIN heap[root].children = {}
    /\ size = 0
    /\ \A o \in Orders :
         /\ Keys(heap, o) = <<>>
         /\ PrefixSearch(heap, <<>>, o) = <<>>
         /\ FuzzySearch(heap, <<>>, o) = <<>>

C10_Witness == Fresh /\ ~panicked /\ DOMAIN heap = {root}

\* C11: Add(key) returns the number of runes of key, whatever the trie
\* holds (key or a prefix of it stored or not).
C11_AddReturnsLength ==
  \A k \in Strings : addrune(heap, root, k, 0).ret = Len(k)

\* "a" and "ab" are stored: Add("ab") meets its key and a prefix of it, and
\* Add("") and Add("bb") meet neither
C11_Witness ==
  /\ nAdd = 2 /\ nRemove = 0
  /\ KeySet(heap) = {<<chA>>, <<chA, chB>>}
  /\ addrune(heap, root, <<chA, chB>>, 0).ret = 2
  /\ addrune(heap, root, <<>>, 0).ret = 0
  /\ addrune(heap, root, <<chB, chB>>, 0).ret = 2

HasOutsideRune(k) == \E i \in DOMAIN k : k[i] \notin LetterA..(LetterA + 25)

\* C12: Add(key) with a rune outside a-z fails with an unsupported-character
\* outcome: it stores no node and no mask computed from that rune.
C12_OutsideRuneRejected ==
  [][\A k \in WideStrings :
       (Add(k) /\ HasOutsideRune(k)) => heap' = heap]_vars

\* the character nodes at and below n
CharNodesBelow(h, n) == {x \in DOMAIN h : IsPrefix(n, x) /\ ~h[x].term}

\* C13: for every character node n other than the root, bit (L - 'a') of
\* n's mask is set iff L is the character of n or of a character node in
\* the subtree below n.
C13_MaskExactBelowRoot ==
  \A n \in DOMAIN heap :
    (n # root /\ ~heap[n].term)
      => heap[n].mask = {heap[x].val - LetterA : x \in CharNodesBelow(heap, n)}

\* "aa" was stored beside another key, and a Remove detached a branch (the
\* root's mask is set by RemoveChild only): the masks that are left hold
\* the letter a alone
C13_Witness ==
  /\ nAdd = 2 /\ nRemove = 1 /\ ~panicked
  /\ KeySet(heap) = {<<chA, chA>>}
  /\ heap[root].mask = {0}
  /\ heap[<<chA>>].mask = {0} /\ heap[<<chA, chA>>].mask = {0}

\* C14: when Remove(key) detaches a child, the index len(key) - i is within
\* the key (rs[idx] does not panic), the detached child is the child on
\* key's path of an ancestor that had more than one child, exactly its
\* subtree goes, and the node at key's full path is no longer reachable.
C14_DetachOnPath ==
  [][\A k \in Strings :
       (Remove(k) /\ nodeAtPath(heap, k) # nil)
         => /\ ~panicked'
            /\ heap' # heap =>
                 /\ nodeAtPath(heap', k) = nil
                 /\ \E j \in 1..Len(k) :
                      LET anc == SubSeq(k, 1, j - 1)
                          child == SubSeq(k, 1, j)
                      IN /\ Cardinality(DOMAIN heap[anc].children) > 1
                         /\ DOMAIN heap'[anc].children =
                              (DOMAIN heap[anc].children) \ {k[j]}
                         /\ DOMAIN heap' = {x \in DOMAIN heap : ~IsPrefix(child, x)}]_vars

\* a Remove has detached the branch of the letter a from the root and left
\* the key "b" (the root's mask is set by RemoveChild only)
C14_Witness ==
  /\ nAdd = 2 /\ nRemove = 1 /\ ~panicked
  /\ KeySet(heap) = {<<chB>>}
  /\ DOMAIN heap[root].children = {chB}
  /\ heap[root].mask = {1}

RECURSIVE ParentSteps(_, _, _)
\* the Parent() calls it takes to get from n to nil, or -1 when more than
\* fuel are needed or the chain leaves the heap
ParentSteps(h, n, fuel) ==
  IF n = nil THEN 0
  ELSE IF fuel = 0 \/ n \notin DOMAIN h THEN -1
  ELSE LET s == ParentSteps(h, h[n].parent, fuel - 1)
       IN IF s = -1 THEN -1 ELSE s + 1

\* the map keys n is stored under, in any node's children
StoredUnder(h, n) ==
  {r \in MapKeys : \E p \in DOMAIN h :
     r \in DOMAIN h[p].children /\ h[p].children[r] = n}

\* C15: every child map entry r -> c has c.parent = n and c.character = r;
\* a node is terminal iff it is stored under character 0; a terminal node
\* has no children and mask 0; the root and the character nodes are not
\* terminal; the parent links form no cycle.
C15_WellFormed ==
  \A n \in DOMAIN heap :
    /\ \A r \in DOMAIN heap[n].children :
         LET c == heap[n].children[r]
         IN c \in DOMAIN heap /\ heap[c].parent = n /\ heap[c].val = r
    /\ heap[n].term <=> nul \in StoredUnder(heap, n)
    /\ n # root => Cardinality(StoredUnder(heap, n)) = 1
    /\ heap[n].term => (DOMAIN heap[n].children = {} /\ heap[n].mask = {})
    /\ ParentSteps(heap, n, Cardinality(DOMAIN heap)) # -1
    /\ heap[root].term = FALSE /\ heap[root].parent = nil

\* the empty key and "ab" are stored (a sentinel under the root and one
\* two levels down), and a Remove has run
C15_Witness ==
  /\ nAdd = 2 /\ nRemove = 1 /\ ~panicked
  /\ KeySet(heap) = {<<>>, <<chA, chB>>}
  /\ Cardinality(DOMAIN heap) = 5

\* C16: every non-terminal node other than the root has a child, so every
\* leaf other than an empty root is a terminal sentinel, and every character
\* node lies on the path of a key that Keys() lists.
C16_NoDeadBranches ==
  \A n \in (DOMAIN heap) \ {root} :
    /\ ~heap[n].term => DOMAIN heap[n].children # {}
    /\ DOMAIN heap[n].children = {} => heap[n].term
    /\ ~heap[n].term => \E k \in KeySet(heap) : IsPrefix(n, k)

\* a Remove has detached a branch from the root and left the chain of "ba"
C16_Witness ==
  /\ nAdd = 2 /\ nRemove = 1 /\ ~panicked
  /\ KeySet(heap) = {<<chB, chA>>}
  /\ heap[root].mask = {0, 1}
  /\ DOMAIN heap = {root, <<chB>>, <<chB, chA>>, <<chB, chA, nul>>}

\* no proper ancestor of the node at path k has more than one child
NoBranchAbove(h, k) ==
  \A j \in 0..(Len(k) - 1) : Cardinality(DOMAIN h[SubSeq(k, 1, j)].children) <= 1

LongestKey(h) ==
  LET lens == {Len(k) : k \in KeySet(h)} \cup {0}
  IN CHOOSE m \in lens : \A l \in lens : l <= m

\* C18: every operation terminates: from a node at depth d (d map entries
\* below the root) the Parent() chain reaches nil in d + 1 steps, so the
\* upward loops of Remove and RemoveChild make at most d rounds; and no node
\* lies deeper than the longest stored key's length + 1, which bounds the
\* recursions of findNode, collect and fuzzycollect (Add(key) descends
\* len(key) + 1 levels and leaves key stored: the state after it is covered).
C18_WalksBounded ==
  LET longest == LongestKey(heap)
  IN \A n \in DOMAIN heap :
       /\ ParentSteps(heap, n, Len(n) + 1) = Len(n) + 1
       /\ Len(n) <= longest + 1

\* a Remove has walked up from depth 2 and RemoveChild has recomputed the
\* root's mask; what is left is the chain of "bb" with its sentinel at depth 3
C18_Witness ==
  /\ nAdd = 2 /\ nRemove = 1 /\ ~panicked
  /\ KeySet(heap) = {<<chB, chB>>}
  /\ heap[root].mask = {1}
  /\ ParentSteps(heap, <<chB, chB, nul>>, 4) = 4

\* C19: size is a call counter: size = the Add calls made - the Remove
\* calls that reached the decrement, whatever Keys() lists.
C19_SizeCountsCalls == size = nAdd - nRemove

\* "a" was added once and removed twice: it is still listed and size is -1
C19_Witness ==
  /\ nAdd = 1 /\ nRemove = 2 /\ ~panicked
  /\ size = -1
  /\ KeySet(heap) = {<<chA>>}

=============================================================================
